---------------------------- MODULE Spec2Model ----------------------------
(***************************************************************************)
(* Model of local-server.py: ContactFormHandler (do_POST, do_OPTIONS, the  *)
(* inherited GET) served by socketserver.TCPServer from main().             *)
(*                                                                         *)
(* Bytes are integers 0..255, text is a sequence of Unicode code points,   *)
(* the console is the sequence of print() calls, each an entry             *)
(* [label, text]: label is the literal part of the printed string, text    *)
(* its computed part.                                                       *)
(***************************************************************************)
EXTENDS Integers, Sequences, FiniteSets, TLC

(***************************************************************************)
(* Bounds of the model.                                                    *)
(***************************************************************************)
\* name[=value] pieces, joined by '&', in a request body of Spec
MaxPairs == 2
\* clients of SpecServe
MaxClients == 2

(***************************************************************************)
(* Program constants.                                                      *)
(***************************************************************************)
PORT == 8000
\* the errno main() compares with
ERRNO_IN_USE == 48

\* Code points the library functions look at.
Ord == [space |-> 32, percent |-> 37, amp |-> 38, plus |-> 43, minus |-> 45,
        zero |-> 48, nine |-> 57, colon |-> 58, eq |-> 61,
        A |-> 65, F |-> 70, a |-> 97, f |-> 102, x |-> 120,
        replacement |-> 65533]

(***************************************************************************)
(* Sequence helpers.                                                       *)
(***************************************************************************)
Take(s, n) == SubSeq(s, 1, IF n < Len(s) THEN n ELSE Len(s))
Drop(s, n) == SubSeq(s, n + 1, Len(s))

\* index of the first occurrence of c in s, 0 when there is none
IndexOf(s, c) ==
    IF \E i \in 1..Len(s) : s[i] = c
    THEN CHOOSE i \in 1..Len(s) : s[i] = c /\ \A j \in 1..(i - 1) : s[j] # c
    ELSE 0

\* str.split(c): the pieces between the occurrences of c
RECURSIVE Split(_, _)
Split(s, c) ==
    LET i == IndexOf(s, c)
    IN  IF i = 0 THEN <<s>>
        ELSE <<SubSeq(s, 1, i - 1)>> \o Split(Drop(s, i), c)

\* str.replace of one character by another
Replace(s, c, d) == [i \in 1..Len(s) |-> IF s[i] = c THEN d ELSE s[i]]

(***************************************************************************)
(* bytes.decode('utf-8', errors): CPython's UTF-8 decoder.                 *)
(***************************************************************************)
IsCont(b) == b >= 128 /\ b <= 191

\* the range the second byte of a sequence led by b1 must lie in
SecondLo(b1) == IF b1 = 224 THEN 160 ELSE IF b1 = 240 THEN 144 ELSE 128
SecondHi(b1) == IF b1 = 237 THEN 159 ELSE IF b1 = 244 THEN 143 ELSE 191

\* the number of bytes a sequence led by b1 has, 0 for an invalid start byte
SeqLen(b1) ==
    IF b1 < 128 THEN 1
    ELSE IF b1 >= 194 /\ b1 <= 223 THEN 2
    ELSE IF b1 >= 224 /\ b1 <= 239 THEN 3
    ELSE IF b1 >= 240 /\ b1 <= 244 THEN 4
    ELSE 0

\* how many bytes at the head of b are well formed: SeqLen(b[1]) when the whole
\* sequence is there, fewer when it is invalid or cut short
GoodPrefix(b) ==
    LET n == SeqLen(b[1])
        ok(i) == i <= Len(b) /\
                 IF i = 2 THEN b[2] >= SecondLo(b[1]) /\ b[2] <= SecondHi(b[1])
                 ELSE IsCont(b[i])
    IN  IF n = 0 THEN 0
        ELSE IF n = 1 THEN 1
        ELSE IF ~ok(2) THEN 1
        ELSE IF n = 2 THEN 2
        ELSE IF ~ok(3) THEN 2
        ELSE IF n = 3 THEN 3
        ELSE IF ~ok(4) THEN 3
        ELSE 4

CodePoint(b, n) ==
    IF n = 1 THEN b[1]
    ELSE IF n = 2 THEN (b[1] - 192) * 64 + (b[2] - 128)
    ELSE IF n = 3 THEN (b[1] - 224) * 4096 + (b[2] - 128) * 64 + (b[3] - 128)
    ELSE (b[1] - 240) * 262144 + (b[2] - 128) * 4096 + (b[3] - 128) * 64 + (b[4] - 128)

\* The decoder: [ok, text]. errors is "strict" (ok = FALSE at the first invalid
\* sequence: UnicodeDecodeError), "ignore" (the invalid bytes are skipped) or
\* "replace" (each invalid sequence becomes U+FFFD).
RECURSIVE Utf8Decode(_, _)
Utf8Decode(b, errors) ==
    IF b = <<>> THEN [ok |-> TRUE, text |-> <<>>]
    ELSE LET n == SeqLen(b[1])
             g == GoodPrefix(b)
         IN  IF n > 0 /\ g = n
             THEN LET rest == Utf8Decode(Drop(b, n), errors)
                  IN  [ok |-> rest.ok, text |-> <<CodePoint(b, n)>> \o rest.text]
             ELSE IF errors = "strict" THEN [ok |-> FALSE, text |-> <<>>]
             ELSE LET skip == IF g = 0 THEN 1 ELSE g
                      rest == Utf8Decode(Drop(b, skip), errors)
                  IN  [ok |-> rest.ok,
                       text |-> (IF errors = "replace" THEN <<Ord.replacement>> ELSE <<>>)
                                \o rest.text]


(***************************************************************************)
(* urllib.parse.unquote(string, encoding='utf-8', errors='replace').        *)
(***************************************************************************)
IsHex(c) == \/ (c >= Ord.zero /\ c <= Ord.nine)
            \/ (c >= Ord.A /\ c <= Ord.F)
            \/ (c >= Ord.a /\ c <= Ord.f)

HexVal(c) == IF c <= Ord.nine THEN c - Ord.zero
             ELSE IF c <= Ord.F THEN c - Ord.A + 10
             ELSE c - Ord.a + 10

\* unquote_to_bytes of an ASCII string: %XX becomes the byte XX, a '%' that two
\* hex digits do not follow stays
RECURSIVE UnquoteToBytes(_)
UnquoteToBytes(s) ==
    IF s = <<>> THEN <<>>
    ELSE IF s[1] = Ord.percent /\ Len(s) >= 3 /\ IsHex(s[2]) /\ IsHex(s[3])
         THEN <<HexVal(s[2]) * 16 + HexVal(s[3])>> \o UnquoteToBytes(Drop(s, 3))
         ELSE <<s[1]>> \o UnquoteToBytes(Tail(s))

\* the length of the longest prefix of s made of ASCII characters
RECURSIVE AsciiRun(_)
AsciiRun(s) == IF s = <<>> \/ s[1] >= 128 THEN 0 ELSE 1 + AsciiRun(Tail(s))

\* unquote: each run of ASCII characters is unquoted to bytes and decoded with
\* errors='replace'; the characters between the runs are kept
RECURSIVE Unquote(_)
Unquote(s) ==
    IF s = <<>> THEN <<>>
    ELSE LET n == AsciiRun(s)
         IN  IF n = 0 THEN <<s[1]>> \o Unquote(Tail(s))
             ELSE Utf8Decode(UnquoteToBytes(Take(s, n)), "replace").text
                  \o Unquote(Drop(s, n))

(***************************************************************************)
(* urllib.parse.parse_qsl / parse_qs with their defaults:                  *)
(* keep_blank_values=False, strict_parsing=False, separator='&'.           *)
(***************************************************************************)
\* the (name, value) pair of one piece 'name=value', or no pair: a piece that is
\* empty, has no '=' or has an empty value is skipped
PairsOfPiece(piece) ==
    LET i == IndexOf(piece, Ord.eq)
    IN  IF piece = <<>> \/ i = 0 \/ i = Len(piece) THEN <<>>
        ELSE << <<Unquote(Replace(SubSeq(piece, 1, i - 1), Ord.plus, Ord.space)),
                  Unquote(Replace(Drop(piece, i), Ord.plus, Ord.space))>> >>

RECURSIVE PairsOfPieces(_)
PairsOfPieces(pieces) ==
    IF pieces = <<>> THEN <<>>
    ELSE PairsOfPiece(Head(pieces)) \o PairsOfPieces(Tail(pieces))

parse_qsl(qs) == IF qs = <<>> THEN <<>> ELSE PairsOfPieces(Split(qs, Ord.amp))

\* parse_qs: the dict, as the sequence of its items in insertion order, each
\* [key, value]: value is the list of the values given for key
RECURSIVE AddPairs(_, _)
AddPairs(dict, pairs) ==
    IF pairs = <<>> THEN dict
    ELSE LET name == Head(pairs)[1]
             val  == Head(pairs)[2]
             next == IF \E i \in 1..Len(dict) : dict[i].key = name
                     THEN [i \in 1..Len(dict) |->
                             IF dict[i].key = name
                             THEN [key |-> name, value |-> Append(dict[i].value, val)]
                             ELSE dict[i]]
                     ELSE Append(dict, [key |-> name, value |-> <<val>>])
         IN  AddPairs(next, Tail(pairs))

parse_qs(qs) == AddPairs(<<>>, parse_qsl(qs))

(***************************************************************************)
(* int(s) of a str: an optional sign and decimal digits; anything else is  *)
(* a ValueError. [ok, val].                                                *)
(***************************************************************************)
IsDigit(c) == c >= Ord.zero /\ c <= Ord.nine

RECURSIVE DigitsVal(_, _)
DigitsVal(s, acc) ==
    IF s = <<>> THEN acc ELSE DigitsVal(Tail(s), acc * 10 + (s[1] - Ord.zero))

ParseInt(s) ==
    LET signed == s # <<>> /\ s[1] \in {Ord.minus, Ord.plus}
        digits == IF signed THEN Tail(s) ELSE s
    IN  IF digits # <<>> /\ \A i \in 1..Len(digits) : IsDigit(digits[i])
        THEN [ok |-> TRUE,
              val |-> IF signed /\ s[1] = Ord.minus
                      THEN 0 - DigitsVal(digits, 0) ELSE DigitsVal(digits, 0)]
        ELSE [ok |-> FALSE, val |-> 0]


\* UnicodeDecodeError's (start, end) of the first invalid sequence of b, which
\* str(e) names; <<>> when b is valid
RECURSIVE DecodeErrorAt(_, _)
DecodeErrorAt(b, pos) ==
    IF b = <<>> THEN <<>>
    ELSE LET n == SeqLen(b[1])
             g == GoodPrefix(b)
         IN  IF n > 0 /\ g = n THEN DecodeErrorAt(Drop(b, n), pos + n)
             ELSE <<pos, pos + (IF g = 0 THEN 1 ELSE g)>>

(***************************************************************************)
(* Requests. A request is [method, path, cl, ct, body]: cl and ct are the  *)
(* Content-Length and Content-Type headers, <<>> when the header is absent *)
(* and <<value>> when it is there. A Content-Length value is a string, a   *)
(* Content-Type value a sequence of tokens, body the bytes the client      *)
(* sends after the headers.                                                *)
(***************************************************************************)
FormType == "application/x-www-form-urlencoded"

ContentTypes == { <<>>,
                  << <<FormType>> >>,
                  << <<FormType, "; charset=UTF-8">> >>,
                  << <<"text/plain">> >> }

Paths == {"/", "/index.html", "/submit", "/?a=b"}

Methods == {"GET", "POST", "OPTIONS"}

\* field names a body is made of: "a" and "%61", which is "a" percent-encoded
Names == { <<97>>, <<37, 54, 49>> }
\* and values: empty, "b", "%44", a valid two-byte sequence and a byte that is
\* invalid UTF-8
Values == { <<>>, <<98>>, <<37, 52, 52>>, <<195, 169>>, <<169>> }
Pieces == Names \cup {n \o <<Ord.eq>> \o v : n \in Names, v \in Values}

RECURSIVE Joined(_)
Joined(k) == IF k <= 1 THEN Pieces
             ELSE {b \o <<Ord.amp>> \o p : b \in Joined(k - 1), p \in Pieces}

Bodies(k) == {<<>>} \cup UNION {Joined(j) : j \in 1..k}

\* the decimal digits of n >= 0, as a client writes a Content-Length
RECURSIVE Decimal(_)
Decimal(n) == IF n < 10 THEN <<Ord.zero + n>>
              ELSE Decimal(n \div 10) \o <<Ord.zero + (n % 10)>>

\* Content-Length values that are not the body's length: "", "1", "11", "-1",
\* "x" and "1x"
CLStrings == { <<>>, <<49>>, <<49, 49>>, <<Ord.minus, 49>>, <<Ord.x>>, <<49, Ord.x>> }

\* the Content-Length headers sent with a body: none, the right one, or one of
\* CLStrings
ContentLengths(body) ==
    {<<>>, <<Decimal(Len(body))>>} \cup {<<t>> : t \in CLStrings}

Request(m, p, cl, ct, b) == [method |-> m, path |-> p, cl |-> cl, ct |-> ct, body |-> b]

\* a client that has not connected has sent nothing
NoRequest == Request("", "", <<>>, <<>>, <<>>)

\* the requests of Spec: every body at the form's paths, the bodies of at most
\* one piece elsewhere
IsRichRequest(m, p, b) ==
    (m = "POST" /\ p \in {"/", "/index.html"}) \/ b \in Bodies(1)

\* the requests of SpecServe: a form body and an undecodable one, with and
\* without a Content-Length, and one request of each other kind
ServeRequests ==
    UNION { {Request("POST", "/", cl, ct, b) :
                ct \in {<< <<FormType>> >>, << <<"text/plain">> >>},
                cl \in {<<>>, <<Decimal(Len(b))>>, << <<Ord.x>> >>}} :
            b \in {<<97, 61, 98>>, <<169>>} }
    \cup {Request("POST", "/submit", <<Decimal(1)>>, << <<FormType>> >>, <<97>>),
          Request("OPTIONS", "/", <<>>, <<>>, <<>>),
          Request("GET", "/", <<>>, <<>>, <<>>)}

(***************************************************************************)
(* State.                                                                  *)
(***************************************************************************)
VARIABLES
    srv,        \* main(): "init", "serving" (in serve_forever) or "exited"
    bindErr,    \* the OSError of a failed bind: [platform, cause, errno], or NoErr
    console,    \* stdout: the print() calls so far
    clients,    \* client -> the request it sends
    hpc,        \* client -> where its connection and its handler are
    eof,        \* client -> it has shut down the sending side of its connection
    pending,    \* the connections waiting in the listen queue
    post_data,  \* client -> the bytes do_POST read
    didRead,    \* client -> do_POST called rfile.read
    resp,       \* client -> the response written to it, or NoResp
    exc,        \* client -> the exception that left its handler, or ""
    accepted    \* the clients whose requests were accepted, in order

vars == <<srv, bindErr, console, clients, hpc, eof, pending, post_data,
          didRead, resp, exc, accepted>>

Clients == DOMAIN clients

NoErr == [platform |-> "", cause |-> "", errno |-> 0]
NoResp == [status |-> 0, headers |-> <<>>, body |-> ""]

Line(label, text) == [label |-> label, text |-> text]

(***************************************************************************)
(* ContactFormHandler.do_POST                                              *)
(***************************************************************************)
FormPaths == {"/", "/index.html"}

\* variant: the query string is not part of the comparison
IsFormPathIgnoringQuery(path) == path \in FormPaths \cup {"/?a=b"}

\* self.path == '/' or self.path == '/index.html'
IsFormPath(path) == path \in FormPaths

\* self.headers['Content-Length'] is None or a string: int() of it is
\* [ok, val, exc]
content_length(req) ==
    IF req.cl = <<>> THEN [ok |-> FALSE, val |-> 0, exc |-> "TypeError"]
    ELSE LET r == ParseInt(req.cl[1])
         IN  [ok |-> r.ok, val |-> r.val,
              exc |-> IF r.ok THEN "" ELSE "ValueError"]

\* rfile.read(n) returns once n bytes are there or the client has shut down;
\* a negative n reads to the end of the stream
CanRead(body, n, closed) == closed \/ (n >= 0 /\ Len(body) >= n)
ReadBytes(body, n) == IF n < 0 THEN body ELSE Take(body, n)

\* 'application/x-www-form-urlencoded' in self.headers.get('Content-Type', '')
IsFormType(req) ==
    req.ct # <<>> /\ \E i \in 1..Len(req.ct[1]) : req.ct[1][i] = FormType

Separator == "=================================================="

HeaderLines ==
    << Line("\\n" \o Separator, <<>>),
       Line("CONTACT FORM SUBMISSION RECEIVED", <<>>),
       Line(Separator, <<>>) >>

\* for key, value in form_data.items(): print(f"{key}: {value[0] if value else ''}")
FieldLines(form_data) ==
    [i \in 1..Len(form_data) |->
        Line("", form_data[i].key \o <<Ord.colon, Ord.space>>
                 \o (IF form_data[i].value # <<>>
                     THEN form_data[i].value[1] ELSE <<>>))]

\* variant: the raw bytes are not printed
ErrorLinesNoRaw(data) ==
    << Line("Error parsing form data: ", DecodeErrorAt(data, 0)) >>

\* except Exception as e
ErrorLines(data) ==
    << Line("Error parsing form data: ", DecodeErrorAt(data, 0)),
       Line("Raw data: ", data) >>

\* variant: the raw text is decoded with errors='replace'
TryBodyReplace(req, data) ==
    IF IsFormType(req)
    THEN LET text == Utf8Decode(data, "strict")
         IN  IF text.ok
             THEN [raised |-> FALSE, lines |-> FieldLines(parse_qs(text.text))]
             ELSE [raised |-> TRUE, lines |-> <<>>]
    ELSE [raised |-> FALSE,
          lines |-> << Line("Raw form data received:", <<>>),
                       Line("", Utf8Decode(data, "replace").text) >>]

\* the body of the try statement, lines 33-40: [raised, lines], the lines
\* printed and whether an exception ended it
TryBody(req, data) ==
    IF IsFormType(req)
    THEN LET text == Utf8Decode(data, "strict")
         IN  IF text.ok
             THEN [raised |-> FALSE, lines |-> FieldLines(parse_qs(text.text))]
             ELSE [raised |-> TRUE, lines |-> <<>>]
    ELSE [raised |-> FALSE,
          lines |-> << Line("Raw form data received:", <<>>),
                       Line("", Utf8Decode(data, "ignore").text) >>]

\* variant: no except clause, the UnicodeDecodeError leaves the handler
PostTryUncaught(req, data) ==
    LET t == TryBody(req, data)
    IN  IF t.raised THEN [lines |-> t.lines, exc |-> "UnicodeDecodeError"]
        ELSE [lines |-> t.lines, exc |-> ""]

\* the try statement, lines 31-44: [lines, exc], the lines printed and the
\* exception that leaves the statement, "" when none does
PostTry(req, data) ==
    LET t == TryBody(req, data)
    IN  IF t.raised THEN [lines |-> t.lines \o ErrorLines(data), exc |-> ""]
        ELSE [lines |-> t.lines, exc |-> ""]

FooterLines ==
    << Line(Separator, <<>>),
       Line("Form submission simulated successfully!", <<>>),
       Line("In production, this would be handled by Netlify Forms", <<>>),
       Line(Separator \o "\\n", <<>>) >>

\* send_response(code) writes the status line and the Server and Date headers
StatusHeaders == << <<"Server", "SimpleHTTP">>, <<"Date", "now">> >>

\* variant: no CORS header
PostResponseNoCors ==
    [status |-> 200,
     headers |-> StatusHeaders \o << <<"Content-type", "text/html">> >>,
     body |-> "success_html"]

PostResponse ==
    [status |-> 200,
     headers |-> StatusHeaders \o << <<"Content-type", "text/html">>,
                                    <<"Access-Control-Allow-Origin", "*">> >>,
     body |-> "success_html"]

NotFoundResponse == [status |-> 404, headers |-> StatusHeaders, body |-> ""]

(***************************************************************************)
(* ContactFormHandler.do_OPTIONS                                           *)
(***************************************************************************)
\* variant: the origin header only, as do_POST sends
OptionsResponseOriginOnly ==
    [status |-> 200,
     headers |-> StatusHeaders \o << <<"Access-Control-Allow-Origin", "*">> >>,
     body |-> ""]

OptionsResponse ==
    [status |-> 200,
     headers |-> StatusHeaders \o
                 << <<"Access-Control-Allow-Origin", "*">>,
                    <<"Access-Control-Allow-Methods", "GET, POST, OPTIONS">>,
                    <<"Access-Control-Allow-Headers", "Content-Type">> >>,
     body |-> ""]

(***************************************************************************)
(* main()                                                                  *)
(***************************************************************************)
Platforms == {"darwin", "linux", "win32"}

\* errno of a bind() that fails: the port is held by another process
\* (EADDRINUSE, WSAEADDRINUSE) or may not be bound (EACCES, WSAEACCES)
Errno(platform, cause) ==
    IF cause = "in_use"
    THEN (IF platform = "darwin" THEN 48 ELSE IF platform = "linux" THEN 98 ELSE 10048)
    ELSE (IF platform = "win32" THEN 10013 ELSE 13)

StartLines ==
    << Line("Starting local server for contact form testing...", <<>>),
       Line("Server will run at: http://localhost:", <<PORT>>),
       Line("Form submissions will be logged to this terminal", <<>>),
       Line("Press Ctrl+C to stop the server", <<>>),
       Line("------------------------------------------------------------", <<>>) >>

StartedLines ==
    << Line("Server started successfully!", <<>>),
       Line("Open your browser to: http://localhost:", <<PORT>>),
       Line("------------------------------------------------------------", <<>>) >>

StoppedLines == << Line("\\nServer stopped by user", <<>>) >>

\* except OSError as e
IsPortConflict(errno) == errno = ERRNO_IN_USE

BindErrorLines(errno) ==
    IF IsPortConflict(errno)
    THEN << Line("Port is already in use. Try a different port or stop the existing server.",
                 <<PORT>>) >>
    ELSE << Line("Error starting server: ", <<errno>>) >>

(***************************************************************************)
(* Initial states: the server is not started, no client has connected.     *)
(***************************************************************************)
InitWith(n) ==
    /\ srv = "init"
    /\ bindErr = NoErr
    /\ console = <<>>
    /\ clients = [c \in 1..n |-> NoRequest]
    /\ hpc = [c \in 1..n |-> "new"]
    /\ eof = [c \in 1..n |-> FALSE]
    /\ pending = <<>>
    /\ post_data = [c \in 1..n |-> <<>>]
    /\ didRead = [c \in 1..n |-> FALSE]
    /\ resp = [c \in 1..n |-> NoResp]
    /\ exc = [c \in 1..n |-> ""]
    /\ accepted = <<>>

\* one client
Init == InitWith(1)

\* MaxClients clients
InitServe == InitWith(MaxClients)

(***************************************************************************)
(* Actions of main().                                                      *)
(***************************************************************************)
\* TCPServer(("", PORT), ContactFormHandler) binds and listens
MainBindOk ==
    /\ srv = "init"
    /\ srv' = "serving"
    /\ console' = console \o StartLines \o StartedLines
    /\ UNCHANGED <<bindErr, clients, hpc, eof, pending, post_data, didRead, resp, exc, accepted>>

\* the bind raises OSError
MainBindFails ==
    /\ srv = "init"
    /\ \E platform \in Platforms, cause \in {"in_use", "denied"} :
          LET errno == Errno(platform, cause)
          IN  /\ bindErr' = [platform |-> platform, cause |-> cause, errno |-> errno]
              /\ console' = console \o StartLines \o BindErrorLines(errno)
    /\ srv' = "exited"
    /\ UNCHANGED <<clients, hpc, eof, pending, post_data, didRead, resp, exc, accepted>>

\* a handler is running between its dispatch and its last write
Active(c) == hpc[c] \in {"dispatch", "banner", "parse", "footer", "respond"}

\* KeyboardInterrupt in serve_forever or in the handler it is running: it is no
\* Exception, so it leaves the handler, where it stands, and the serve loop
Interrupt ==
    /\ srv = "serving"
    /\ srv' = "exited"
    /\ console' = console \o StoppedLines
    /\ UNCHANGED <<bindErr, clients, hpc, eof, pending, post_data, didRead, resp, exc, accepted>>

(***************************************************************************)
(* Clients.                                                                *)
(***************************************************************************)
\* the client connects and sends the request r
Send(c, r) ==
    /\ srv = "serving"
    /\ hpc[c] = "new"
    /\ clients' = [clients EXCEPT ![c] = r]
    /\ hpc' = [hpc EXCEPT ![c] = "queued"]
    /\ pending' = Append(pending, c)
    /\ UNCHANGED <<srv, bindErr, console, eof, post_data, didRead, resp, exc, accepted>>

\* with any request
Connect(c) ==
    /\ hpc[c] = "new"
    /\ \E m \in Methods, p \in Paths, ct \in ContentTypes, b \in Bodies(MaxPairs) :
          \E cl \in ContentLengths(b) :
              IsRichRequest(m, p, b) /\ Send(c, Request(m, p, cl, ct, b))

\* with a request of ServeRequests
ConnectServe(c) ==
    /\ hpc[c] = "new"
    /\ \E r \in ServeRequests : Send(c, r)

\* the client shuts down its sending side while its request is not read yet
ClientShutdown(c) ==
    /\ srv = "serving"
    /\ hpc[c] \in {"queued", "dispatch"}
    /\ ~eof[c]
    /\ eof' = [eof EXCEPT ![c] = TRUE]
    /\ UNCHANGED <<srv, bindErr, console, clients, hpc, pending, post_data, didRead, resp, exc, accepted>>

(***************************************************************************)
(* The serve loop and the handler.                                         *)
(***************************************************************************)
\* variant: a threading server, which accepts while a handler runs
ReadyThreading == TRUE

\* TCPServer handles a request to its end before it accepts the next one
Ready == \A d \in Clients : ~Active(d)

Accept(c) ==
    /\ srv = "serving"
    /\ Ready
    /\ pending # <<>> /\ c = Head(pending)
    /\ pending' = Tail(pending)
    /\ hpc' = [hpc EXCEPT ![c] = "dispatch"]
    /\ accepted' = Append(accepted, c)
    /\ UNCHANGED <<srv, bindErr, console, clients, eof, post_data, didRead, resp, exc>>

\* variant: the exception leaves serve_forever
AfterExceptionExits == "exited"

\* BaseServer.handle_error: the exception is reported and the connection closed,
\* the serve loop goes on
AfterException == "serving"

IsFormPost(c) ==
    hpc[c] = "dispatch" /\ clients[c].method = "POST" /\ IsFormPath(clients[c].path)

\* do_POST, line 24: int() raises
PostBadLength(c) ==
    /\ srv = "serving"
    /\ IsFormPost(c)
    /\ ~content_length(clients[c]).ok
    /\ exc' = [exc EXCEPT ![c] = content_length(clients[c]).exc]
    /\ hpc' = [hpc EXCEPT ![c] = "done"]
    /\ srv' = AfterException
    /\ UNCHANGED <<bindErr, console, clients, eof, pending, post_data, didRead, resp, accepted>>

\* do_POST, lines 24-25
PostRead(c) ==
    /\ srv = "serving"
    /\ IsFormPost(c)
    /\ content_length(clients[c]).ok
    /\ LET n == content_length(clients[c]).val
       IN  /\ CanRead(clients[c].body, n, eof[c])
           /\ post_data' = [post_data EXCEPT ![c] = ReadBytes(clients[c].body, n)]
    /\ didRead' = [didRead EXCEPT ![c] = TRUE]
    /\ hpc' = [hpc EXCEPT ![c] = "banner"]
    /\ UNCHANGED <<srv, bindErr, console, clients, eof, pending, resp, exc, accepted>>

\* do_POST, lines 27-29
PostPrintHeader(c) ==
    /\ srv = "serving"
    /\ hpc[c] = "banner"
    /\ console' = console \o HeaderLines
    /\ hpc' = [hpc EXCEPT ![c] = "parse"]
    /\ UNCHANGED <<srv, bindErr, clients, eof, pending, post_data, didRead, resp, exc, accepted>>

\* do_POST, lines 31-44: an exception that left the try statement would leave
\* the handler
PostPrintData(c) ==
    /\ srv = "serving"
    /\ hpc[c] = "parse"
    /\ LET t == PostTry(clients[c], post_data[c])
       IN  /\ console' = console \o t.lines
           /\ exc' = [exc EXCEPT ![c] = t.exc]
           /\ hpc' = [hpc EXCEPT ![c] = IF t.exc = "" THEN "footer" ELSE "done"]
           /\ srv' = IF t.exc = "" THEN srv ELSE AfterException
    /\ UNCHANGED <<bindErr, clients, eof, pending, post_data, didRead, resp, accepted>>

\* do_POST, lines 46-49
PostPrintFooter(c) ==
    /\ srv = "serving"
    /\ hpc[c] = "footer"
    /\ console' = console \o FooterLines
    /\ hpc' = [hpc EXCEPT ![c] = "respond"]
    /\ UNCHANGED <<srv, bindErr, clients, eof, pending, post_data, didRead, resp, exc, accepted>>

\* do_POST, lines 52-79
PostRespond(c) ==
    /\ srv = "serving"
    /\ hpc[c] = "respond"
    /\ resp' = [resp EXCEPT ![c] = PostResponse]
    /\ hpc' = [hpc EXCEPT ![c] = "done"]
    /\ UNCHANGED <<srv, bindErr, console, clients, eof, pending, post_data, didRead, exc, accepted>>

\* do_POST, lines 81-84
PostNotFound(c) ==
    /\ srv = "serving"
    /\ hpc[c] = "dispatch"
    /\ clients[c].method = "POST" /\ ~IsFormPath(clients[c].path)
    /\ resp' = [resp EXCEPT ![c] = NotFoundResponse]
    /\ hpc' = [hpc EXCEPT ![c] = "done"]
    /\ UNCHANGED <<srv, bindErr, console, clients, eof, pending, post_data, didRead, exc, accepted>>

DoOptions(c) ==
    /\ srv = "serving"
    /\ hpc[c] = "dispatch"
    /\ clients[c].method = "OPTIONS"
    /\ resp' = [resp EXCEPT ![c] = OptionsResponse]
    /\ hpc' = [hpc EXCEPT ![c] = "done"]
    /\ UNCHANGED <<srv, bindErr, console, clients, eof, pending, post_data, didRead, exc, accepted>>

\* the inherited SimpleHTTPRequestHandler.do_GET: the file, or 404
DoGet(c) ==
    /\ srv = "serving"
    /\ hpc[c] = "dispatch"
    /\ clients[c].method = "GET"
    /\ \E found \in BOOLEAN :
          resp' = [resp EXCEPT ![c] =
                     IF found
                     THEN [status |-> 200, headers |-> StatusHeaders, body |-> "file"]
                     ELSE [status |-> 404, headers |-> StatusHeaders, body |-> "error page"]]
    /\ hpc' = [hpc EXCEPT ![c] = "done"]
    /\ UNCHANGED <<srv, bindErr, console, clients, eof, pending, post_data, didRead, exc, accepted>>

\* the server: main(), the serve loop and the handlers
Server ==
    \/ MainBindOk
    \/ MainBindFails
    \/ Interrupt
    \/ \E c \in Clients : Accept(c)
    \/ \E c \in Clients : PostBadLength(c)
    \/ \E c \in Clients : PostRead(c)
    \/ \E c \in Clients : PostPrintHeader(c)
    \/ \E c \in Clients : PostPrintData(c)
    \/ \E c \in Clients : PostPrintFooter(c)
    \/ \E c \in Clients : PostRespond(c)
    \/ \E c \in Clients : PostNotFound(c)
    \/ \E c \in Clients : DoOptions(c)
    \/ \E c \in Clients : DoGet(c)

Next ==
    \/ \E c \in Clients : Connect(c)
    \/ \E c \in Clients : ClientShutdown(c)
    \/ Server

NextServe ==
    \/ \E c \in Clients : ConnectServe(c)
    \/ \E c \in Clients : ClientShutdown(c)
    \/ Server

\* one client, every request
Spec == Init /\ [][Next]_vars

\* several clients, the serve loop
SpecServe == InitServe /\ [][NextServe]_vars

(***************************************************************************)
(* The claims. What a claim says of a request it says of every client c.   *)
(***************************************************************************)
\* c sent a POST at "/" or "/index.html"
AtForm(c) == clients[c].method = "POST" /\ clients[c].path \in {"/", "/index.html"}

\* c's Content-Length header is there and is an integer
LengthParses(c) == clients[c].cl # <<>> /\ ParseInt(clients[c].cl[1]).ok

\* c's handler has returned or raised
Handled(c) == hpc[c] = "done"

\* c's handler is past the try statement of do_POST
DataPrinted(c) == hpc[c] \in {"footer", "respond"} \/ (hpc[c] = "done" /\ didRead[c])

HeadersOf(r) == {r.headers[i] : i \in 1..Len(r.headers)}

CorsNames == {"Access-Control-Allow-Origin", "Access-Control-Allow-Methods",
              "Access-Control-Allow-Headers", "Access-Control-Allow-Credentials",
              "Access-Control-Expose-Headers", "Access-Control-Max-Age"}

CorsOf(r) == {h \in HeadersOf(r) : h[1] \in CorsNames}

AllCors == { <<"Access-Control-Allow-Origin", "*">>,
             <<"Access-Control-Allow-Methods", "GET, POST, OPTIONS">>,
             <<"Access-Control-Allow-Headers", "Content-Type">> }

IsSuccessPage(r) ==
    /\ r.status = 200
    /\ <<"Content-type", "text/html">> \in HeadersOf(r)
    /\ r.body = "success_html"

\* how many times the console holds the line l
CountOf(l) == Cardinality({i \in 1..Len(console) : console[i] = l})

InvalidUtf8(data) == ~Utf8Decode(data, "strict").ok

----------------------------------------------------------------------------
\* C1, as stated: every POST at "/" or "/index.html" that was handled was
\* answered with 200, text/html and the success page, whatever its headers and
\* its body.
C1_EveryFormPostSucceeds ==
    \A c \in Clients : AtForm(c) /\ Handled(c) => IsSuccessPage(resp[c])

\* C1, amended: a POST at "/" or "/index.html" whose Content-Length is there and
\* is an integer is answered, once handled, with 200, text/html and the success
\* page, whatever its body and its content type, and no exception leaves the
\* handler; when the Content-Length is missing or no integer, int() raises
\* before anything is read, and nothing is sent. No other status is ever sent.
C1_FormPostSucceedsWhenLengthParses ==
    \A c \in Clients :
        AtForm(c) =>
            /\ resp[c] \in {NoResp, PostResponse}
            /\ Handled(c) /\ LengthParses(c) => IsSuccessPage(resp[c]) /\ exc[c] = ""
            /\ Handled(c) /\ ~LengthParses(c) =>
                  /\ resp[c] = NoResp
                  /\ exc[c] \in {"TypeError", "ValueError"}
                  /\ ~didRead[c]

\* a form POST whose body failed to decode was answered with the success page
C1_Witness ==
    \E c \in Clients :
        /\ AtForm(c) /\ Handled(c) /\ IsFormType(clients[c])
        /\ InvalidUtf8(post_data[c])
        /\ IsSuccessPage(resp[c])

----------------------------------------------------------------------------
\* C2, as stated: the response to a POST at "/" or "/index.html" carries the
\* three CORS headers an OPTIONS response carries.
C2_PostCarriesAllCorsHeaders ==
    \A c \in Clients :
        AtForm(c) /\ resp[c] # NoResp => CorsOf(resp[c]) = AllCors

\* C2, amended: the response to a POST at "/" or "/index.html" carries one CORS
\* header, Access-Control-Allow-Origin: *; Allow-Methods and Allow-Headers are
\* carried by OPTIONS responses only.
C2_PostCarriesAllowOriginOnly ==
    \A c \in Clients :
        /\ AtForm(c) /\ resp[c] # NoResp =>
              CorsOf(resp[c]) = { <<"Access-Control-Allow-Origin", "*">> }
        /\ clients[c].method = "OPTIONS" /\ resp[c] # NoResp =>
              CorsOf(resp[c]) = AllCors

C2_Witness == \E c \in Clients : AtForm(c) /\ resp[c].status = 200

----------------------------------------------------------------------------
\* The fields of a form body as C3 reads them: every piece name=value between
\* '&' names a field, the text before its first '=' percent-decoded; the field's
\* value is the text after that '=', percent-decoded, which may be empty.
FieldPieces(text) ==
    LET pieces == Split(text, Ord.amp)
    IN  SelectSeq(pieces, LAMBDA piece : IndexOf(piece, Ord.eq) # 0)

FieldName(piece) ==
    LET i == IndexOf(piece, Ord.eq)
    IN  Unquote(IF i = 0 THEN piece ELSE SubSeq(piece, 1, i - 1))

FieldValue(piece) ==
    LET i == IndexOf(piece, Ord.eq)
    IN  IF i = 0 THEN <<>> ELSE Unquote(Drop(piece, i))

FieldNames(text) ==
    {FieldName(FieldPieces(text)[i]) : i \in 1..Len(FieldPieces(text))}

FirstValue(text, name) ==
    LET pieces == FieldPieces(text)
        first == CHOOSE i \in 1..Len(pieces) :
                    /\ FieldName(pieces[i]) = name
                    /\ \A j \in 1..(i - 1) : FieldName(pieces[j]) # name
    IN  FieldValue(pieces[first])

\* how many lines "name: value" or echoed text the console holds
CountOfLabel(label) ==
    Cardinality({i \in 1..Len(console) : console[i].label = label})

\* C3, as stated: for a form POST with a form content type whose body decodes,
\* the console has, for each field name of the body, exactly one line
\* "name: value" with the first value given for the name, empty when the field
\* has none, and no other field line.
C3_OneLinePerFieldName ==
    \A c \in Clients :
        AtForm(c) /\ IsFormType(clients[c]) /\ DataPrinted(c)
                  /\ ~InvalidUtf8(post_data[c]) =>
            LET text == Utf8Decode(post_data[c], "strict").text
            IN  /\ \A name \in FieldNames(text) :
                      CountOf(Line("", name \o <<Ord.colon, Ord.space>>
                                       \o FirstValue(text, name))) = 1
                /\ CountOfLabel("") = Cardinality(FieldNames(text))

----------------------------------------------------------------------------
\* the console holds the parse-error line and, next, the raw bytes c sent
ErrorLogged(c) ==
    \E i \in 1..(Len(console) - 1) :
        /\ console[i].label = "Error parsing form data: "
        /\ console[i + 1] = Line("Raw data: ", post_data[c])

\* C4, as stated: a form POST whose body is not valid UTF-8 has, whatever its
\* content type, the parse-error line and its raw bytes printed, and is then
\* answered with 200.
C4_InvalidUtf8IsLogged ==
    \A c \in Clients :
        AtForm(c) /\ DataPrinted(c) /\ InvalidUtf8(post_data[c]) =>
            /\ ErrorLogged(c)
            /\ exc[c] = ""
            /\ Handled(c) => resp[c].status = 200

\* C4, amended: a form POST with an integer Content-Length whose body is not
\* valid UTF-8 has the parse-error line and its raw bytes printed, and no field
\* line, when its Content-Type contains application/x-www-form-urlencoded; with
\* any other content type, and for a body that decodes, no parse-error line is
\* printed. Either way no exception leaves the handler and the answer is 200.
C4_InvalidUtf8IsLoggedForFormType ==
    \A c \in Clients :
        AtForm(c) /\ DataPrinted(c) =>
            /\ IsFormType(clients[c]) /\ InvalidUtf8(post_data[c]) =>
                  /\ ErrorLogged(c)
                  /\ CountOfLabel("Error parsing form data: ") = 1
                  /\ CountOfLabel("Raw data: ") = 1
                  /\ CountOfLabel("") = 0
            /\ ~(IsFormType(clients[c]) /\ InvalidUtf8(post_data[c])) =>
                  /\ CountOfLabel("Error parsing form data: ") = 0
                  /\ CountOfLabel("Raw data: ") = 0
            /\ exc[c] = ""
            /\ Handled(c) => resp[c].status = 200

\* a form-encoded POST cut in the middle of a two-byte sequence was logged and
\* answered
C4_Witness ==
    \E c \in Clients :
        /\ AtForm(c) /\ Handled(c) /\ IsFormType(clients[c])
        /\ Len(post_data[c]) < Len(clients[c].body)
        /\ InvalidUtf8(post_data[c]) /\ ~InvalidUtf8(clients[c].body)
        /\ ErrorLogged(c)
        /\ resp[c].status = 200

----------------------------------------------------------------------------
\* the text printed after the label "Raw form data received:" is text
EchoedIs(text) ==
    \E i \in 1..(Len(console) - 1) :
        /\ console[i] = Line("Raw form data received:", <<>>)
        /\ console[i + 1] = Line("", text)

\* C5, as stated: a form POST whose content type is not the form type has its
\* body echoed under the label, decoded with every invalid sequence replaced by
\* U+FFFD.
C5_InvalidBytesAreReplaced ==
    \A c \in Clients :
        AtForm(c) /\ ~IsFormType(clients[c]) /\ DataPrinted(c) =>
            EchoedIs(Utf8Decode(post_data[c], "replace").text)

\* C5, amended: a form POST with an integer Content-Length whose content type is
\* not the form type (or is absent) has its body echoed under the label, decoded
\* with every invalid sequence dropped: the echoed text is the replaced text
\* without its replacement characters. It raises nothing and is answered 200.
C5_InvalidBytesAreDropped ==
    \A c \in Clients :
        AtForm(c) /\ ~IsFormType(clients[c]) /\ DataPrinted(c) =>
            /\ EchoedIs(SelectSeq(Utf8Decode(post_data[c], "replace").text,
                                  LAMBDA ch : ch # Ord.replacement))
            /\ CountOfLabel("Raw form data received:") = 1
            /\ CountOfLabel("") = 1
            /\ exc[c] = ""
            /\ Handled(c) => resp[c].status = 200

\* a text/plain POST with an invalid byte among valid ones was echoed and
\* answered
C5_Witness ==
    \E c \in Clients :
        /\ AtForm(c) /\ Handled(c) /\ clients[c].ct = << <<"text/plain">> >>
        /\ InvalidUtf8(post_data[c])
        /\ Utf8Decode(post_data[c], "ignore").text # <<>>
        /\ resp[c].status = 200

----------------------------------------------------------------------------
\* C6, as stated: when the bind fails because the port is held, on any
\* platform, main() prints the port-conflict diagnostic, not the generic one,
\* and returns.
C6_PortConflictIsDiagnosed ==
    bindErr.cause = "in_use" =>
        /\ srv = "exited"
        /\ console[Len(console)] =
              Line("Port is already in use. Try a different port or stop the existing server.",
                   <<PORT>>)

----------------------------------------------------------------------------
\* C7: a POST at any other path is answered with 404 and an empty body; its
\* body is not read, nothing is printed for it and no Content-Length is needed.
C7_OtherPostIs404 ==
    \A c \in Clients :
        clients[c].method = "POST" /\ clients[c].path \notin {"/", "/index.html"} =>
            /\ ~didRead[c] /\ post_data[c] = <<>>
            /\ exc[c] = ""
            /\ CountOf(HeaderLines[2]) = 0
            /\ resp[c] \in {NoResp, NotFoundResponse}
            /\ Handled(c) => resp[c].status = 404 /\ resp[c].body = ""

\* a POST at "/?a=b" with a body and no Content-Length was answered
C7_Witness ==
    \E c \in Clients :
        /\ clients[c].method = "POST" /\ clients[c].path = "/?a=b"
        /\ clients[c].cl = <<>> /\ clients[c].body # <<>>
        /\ Handled(c) /\ resp[c].status = 404

----------------------------------------------------------------------------
\* C8: an OPTIONS request, at any path and with any headers, is answered with
\* 200, the three CORS headers and an empty body, and prints nothing.
C8_OptionsAnswersPreflight ==
    \A c \in Clients :
        clients[c].method = "OPTIONS" =>
            /\ exc[c] = "" /\ ~didRead[c]
            /\ CountOf(HeaderLines[2]) = 0
            /\ Handled(c) =>
                  /\ resp[c].status = 200
                  /\ CorsOf(resp[c]) = AllCors
                  /\ resp[c].body = ""

\* an OPTIONS request at "/submit" with a form content type was answered
C8_Witness ==
    \E c \in Clients :
        /\ clients[c].method = "OPTIONS" /\ clients[c].path = "/submit"
        /\ IsFormType(clients[c]) /\ clients[c].cl # <<>>
        /\ Handled(c) /\ resp[c].status = 200

----------------------------------------------------------------------------
\* no handler is running
NoHandlerRunning == \A d \in Clients : hpc[d] \in {"new", "queued", "done"}

\* C9: once the port is bound, only the operator's interrupt ends the serve
\* loop: a step in which a handler raises (a missing or non-integer
\* Content-Length) leaves the server serving, with no handler running, ready to
\* accept the next request; a request whose handler raised is finished.
C9_OnlyInterruptStopsServing ==
    /\ [][srv = "serving" => (srv' = "serving" \/ Interrupt)]_vars
    /\ [][exc' # exc => (srv' = "serving" /\ NoHandlerRunning')]_vars
    /\ [](\A c \in Clients : exc[c] # "" => hpc[c] = "done" /\ resp[c] = NoResp)

\* a handler raised, and a request accepted after it was answered with 200
C9_Witness ==
    \E i, j \in 1..Len(accepted) :
        /\ i < j
        /\ exc[accepted[i]] \in {"TypeError", "ValueError"}
        /\ resp[accepted[j]].status = 200
        /\ srv = "serving"

----------------------------------------------------------------------------
\* what the handlers printed: the console after main()'s start-up lines
HandlerOutput == Drop(console, Len(StartLines) + Len(StartedLines))

IsDataLine(l) ==
    l.label \in {"", "Raw form data received:", "Error parsing form data: ", "Raw data: "}

\* field lines, or the label and the raw text, or the parse error and the
\* raw bytes
IsDataSection(d) ==
    \/ \A i \in 1..Len(d) : d[i].label = ""
    \/ Len(d) = 2 /\ d[1] = Line("Raw form data received:", <<>>) /\ d[2].label = ""
    \/ Len(d) = 2 /\ d[1].label = "Error parsing form data: " /\ d[2].label = "Raw data: "

\* the number of data lines at the head of s
RECURSIVE DataRun(_)
DataRun(s) == IF s = <<>> \/ ~IsDataLine(s[1]) THEN 0 ELSE 1 + DataRun(Tail(s))

\* s is a sequence of whole blocks; the last one may still be in progress, and
\* main()'s last line may follow
RECURSIVE IsBlocks(_)
IsBlocks(s) ==
    IF s = <<>> \/ s = StoppedLines THEN TRUE
    ELSE /\ Len(s) >= 3 /\ SubSeq(s, 1, 3) = HeaderLines
         /\ LET k == DataRun(Drop(s, 3))
                rest == Drop(s, 3 + k)
            IN  \/ k = 0 /\ rest \in {<<>>, StoppedLines}
                \/ /\ IsDataSection(SubSeq(s, 4, 3 + k))
                   /\ \/ rest \in {<<>>, StoppedLines}
                      \/ /\ Len(rest) >= 4 /\ SubSeq(rest, 1, 4) = FooterLines
                         /\ IsBlocks(Drop(rest, 4))

Bound == srv # "init" /\ bindErr = NoErr

\* C10, as stated: every POST at "/" or "/index.html" that was handled printed
\* one whole block.
C10_EveryFormPostPrintsOneBlock ==
    Bound =>
        CountOf(FooterLines[2]) =
            Cardinality({c \in Clients : AtForm(c) /\ hpc[c] \in {"respond", "done"}})

\* C10, amended: every POST at "/" or "/index.html" whose Content-Length is an
\* integer prints one block: the opening lines, then the field lines, the raw
\* text or the parse-error lines, then the closing lines; the handlers' output
\* is a sequence of such blocks, whole but for the one in progress; the response
\* is sent after the block is whole. A POST whose Content-Length is missing or
\* no integer prints nothing.
C10_OneWholeBlockPerFormPost ==
    Bound =>
        /\ IsBlocks(HandlerOutput)
        /\ CountOf(HeaderLines[2]) =
              Cardinality({c \in Clients :
                  AtForm(c) /\ LengthParses(c)
                            /\ hpc[c] \in {"parse", "footer", "respond", "done"}})
        /\ CountOf(FooterLines[2]) =
              Cardinality({c \in Clients :
                  AtForm(c) /\ LengthParses(c) /\ hpc[c] \in {"respond", "done"}})
        /\ \A c \in Clients :
              AtForm(c) /\ resp[c] # NoResp => LengthParses(c) /\ hpc[c] = "done"

\* two form POSTs were answered, the second with a parse error in its block
C10_Witness ==
    /\ Len(accepted) >= 2
    /\ \A i \in 1..2 : AtForm(accepted[i]) /\ resp[accepted[i]].status = 200
    /\ IsFormType(clients[accepted[1]]) /\ ~InvalidUtf8(post_data[accepted[1]])
    /\ IsFormType(clients[accepted[2]]) /\ InvalidUtf8(post_data[accepted[2]])
    /\ CountOf(FooterLines[2]) = 2

=============================================================================
